---- MODULE Spec2Model ----
(***************************************************************************)
(* Model of cognitive_mission_pnt.py: the NavEngine worker thread (run),   *)
(* the catalog updater thread (update_catalog_network), the /data reader   *)
(* and the least-squares solver (solve_pnt).                               *)
(*                                                                         *)
(* Units.  A position is a vector of integers.  sat_pos holds the numbers   *)
(* of the code, metres (line 217 reads .m); truth_ecef holds the code's     *)
(* kilometres in units of 1/EcefScale (0.00001).  The code subtracts the    *)
(* numbers of the one from the numbers of the other as they are, and so     *)
(* does the model.  Pseudoranges and distances are integers in units of     *)
(* 1/PrScale (0.01), so that the clock bias 120.0 and the noise interval   *)
(* [-0.02, 0.02] are integers.  The solver's X, dX and residuals are       *)
(* integers in units of 0.0001, so that the convergence threshold 0.001 is *)
(* the integer 10.  Square roots are taken on numbers of several digits    *)
(* (Base), since the squares do not fit the integers of the checker.       *)
(*                                                                         *)
(* External libraries.  skyfield (propagation, alt/az, sub-point) and      *)
(* numpy.linalg.lstsq are not part of the repository: what they return is  *)
(* an input of the model, drawn from bounded sets (the "sky" of a cycle,   *)
(* the lstsq outcome of an iteration).  Trigonometric conversions are kept *)
(* as symbolic terms of their argument.                                    *)
(*                                                                         *)
(* Left out of Spec: state['log'] (written by log() only, read by nobody   *)
(* but the reader), and the radio: the engine runs without one, the except *)
(* branch of init_radio, so self.sdr is None.  log() running in several    *)
(* threads is the subject of LogSpec.                                      *)
(***************************************************************************)
EXTENDS Integers, Sequences, FiniteSets, TLC

\* ----------------------------------------------------------------- bounds
\* At most this many satellites of a catalog are above the mask in a cycle.
MaxInView == 5
\* Longest measurement list handed to the solver on its own (SolverSpec).
MaxMeas == 5
\* Resolution of a pseudorange: units per kilometre.
PrScale == 100

\* ------------------------------------------------------ program constants
MaskDeg == 10
MinFixSats == 4
MaxIterations == 15
ConvergenceThreshold == 10
MinLiveTargets == 10
ShufflePoolMin == 50
ScanCap == 300
MaxLog == 10
MaxDisplayed == 6
NumUrls == 3
EmbeddedCount == 5

\* clock_bias = 120.0 (km)
ClockBias == 120 * PrScale
\* random.uniform(-0.02, 0.02): the bound of the noise, 0.02
NoiseBound == (2 * PrScale) \div 100

\* Resolution of truth_ecef: units per kilometre.
EcefScale == 100000

\* truth_ecef = lla_to_ecef(TRUE_LAT, TRUE_LON, TRUE_ALT)
\*            = [1074.873009771729, 6122.861659268589, 1422.2469106171661]
truth_ecef == <<107487301, 612286166, 142224691>>

None == <<>>

\* ---------------------------------------------------------------- helpers
Min(a, b) == IF a < b THEN a ELSE b

Abs(a) == IF a < 0 THEN -a ELSE a

Range(s) == {s[i] : i \in 1..Len(s)}

\* s[:n]
Take(s, n) == SubSeq(s, 1, Min(n, Len(s)))

RECURSIVE SumTo(_, _)
SumTo(f, n) == IF n = 0 THEN 0 ELSE f[n] + SumTo(f, n - 1)

\* ------------------------------------------------- numbers of many digits
\* A natural number as its digits in base Base, lowest first, without
\* leading zeros: <<>> is 0.
Base == 10000

RECURSIVE Strip(_)
Strip(d) ==
    IF Len(d) > 0 /\ d[Len(d)] = 0 THEN Strip(SubSeq(d, 1, Len(d) - 1)) ELSE d

RECURSIVE CarryFrom(_, _, _)
CarryFrom(d, i, c) ==
    IF i > Len(d)
    THEN IF c = 0 THEN <<>> ELSE <<c % Base>> \o CarryFrom(d, i, c \div Base)
    ELSE <<(d[i] + c) % Base>> \o CarryFrom(d, i + 1, (d[i] + c) \div Base)

Big(n) == Strip(CarryFrom(<<n>>, 1, 0))

Digit(a, i) == IF i <= Len(a) THEN a[i] ELSE 0

BigAdd(a, b) ==
    LET n == IF Len(a) > Len(b) THEN Len(a) ELSE Len(b)
    IN Strip(CarryFrom([i \in 1..n |-> Digit(a, i) + Digit(b, i)], 1, 0))

RECURSIVE SubFrom(_, _, _, _)
SubFrom(a, b, i, borrow) ==
    IF i > Len(a) THEN <<>>
    ELSE LET v == a[i] - Digit(b, i) - borrow
         IN <<(v + Base) % Base>> \o SubFrom(a, b, i + 1, IF v < 0 THEN 1 ELSE 0)

\* a - b for a >= b
BigSub(a, b) == Strip(SubFrom(a, b, 1, 0))

BigMul(a, b) ==
    IF a = <<>> \/ b = <<>> THEN <<>>
    ELSE Strip(CarryFrom(
        [k \in 1..(Len(a) + Len(b) - 1) |->
            SumTo([i \in 1..Len(a) |->
                      IF k + 1 - i \in 1..Len(b) THEN a[i] * b[k + 1 - i] ELSE 0],
                  Len(a))], 1, 0))

RECURSIVE LeqFrom(_, _, _)
LeqFrom(a, b, i) ==
    IF i = 0 THEN TRUE
    ELSE IF a[i] # b[i] THEN a[i] < b[i] ELSE LeqFrom(a, b, i - 1)

BigLeq(a, b) == IF Len(a) # Len(b) THEN Len(a) < Len(b) ELSE LeqFrom(a, b, Len(a))

Shift(a, k) == IF a = <<>> THEN <<>> ELSE [i \in 1..k |-> 0] \o a

\* The largest digit d in lo..hi with (r + d * Base^(k-1))^2 <= n.
RECURSIVE DigitSearch(_, _, _, _, _)
DigitSearch(n, r, k, lo, hi) ==
    IF lo >= hi THEN lo
    ELSE LET mid == (lo + hi + 1) \div 2
             c == BigAdd(r, Shift(Big(mid), k - 1))
         IN IF BigLeq(BigMul(c, c), n) THEN DigitSearch(n, r, k, mid, hi)
                                       ELSE DigitSearch(n, r, k, lo, mid - 1)

RECURSIVE SqrtFrom(_, _, _)
SqrtFrom(n, r, k) ==
    IF k = 0 THEN r
    ELSE SqrtFrom(n, BigAdd(r, Shift(Big(DigitSearch(n, r, k, 0, Base - 1)), k - 1)),
                  k - 1)

\* floor of the square root
BigSqrt(n) == SqrtFrom(n, <<>>, (Len(n) + 1) \div 2)

RECURSIVE DivFrom(_, _, _, _)
DivFrom(a, d, i, rem) ==
    IF i = 0 THEN <<>>
    ELSE DivFrom(a, d, i - 1, (rem * Base + a[i]) % d)
         \o <<(rem * Base + a[i]) \div d>>

\* floor of a / d for an integer d in 1..(20 * Base)
BigDivInt(a, d) == Strip(DivFrom(a, d, Len(a), 0))

RECURSIVE BigToInt(_)
BigToInt(a) == IF a = <<>> THEN 0 ELSE a[1] + Base * BigToInt(Tail(a))

\* a - b as an integer
BigDiff(a, b) ==
    IF BigLeq(b, a) THEN BigToInt(BigSub(a, b)) ELSE -BigToInt(BigSub(b, a))

\* |s * p - x| for integers p and x and a scale s > 0
AbsDiff(p, s, x) ==
    LET P == BigMul(Big(Abs(p)), Big(s))
        Xb == Big(Abs(x))
    IN IF (p >= 0) = (x >= 0)
       THEN IF BigLeq(P, Xb) THEN BigSub(Xb, P) ELSE BigSub(P, Xb)
       ELSE BigAdd(P, Xb)

SumSq(e) == BigAdd(BigMul(e[1], e[1]), BigAdd(BigMul(e[2], e[2]), BigMul(e[3], e[3])))

\* m * |e| / dv, rounded to the nearest integer
ScaledNorm(e, m, dv) ==
    BigToInt(BigDivInt(BigAdd(BigSqrt(BigMul(Big(4 * m * m), SumSq(e))),
                              Big(dv)), 2 * dv))

\* The components of pos - X in units of 0.0001, without their signs: pos
\* is a vector of integers, X is in units of 0.0001.
Separation(pos, X) == [i \in 1..3 |-> AbsDiff(pos[i], 10000, X[i])]

\* np.linalg.norm(pos - q) in units of 1/PrScale: pos is a vector of
\* integers, q is in units of 1/s.
Norm(pos, s, q) ==
    ScaledNorm([i \in 1..3 |-> AbsDiff(pos[i], s, q[i])], PrScale, s)

\* ------------------------------------------------------------- catalogs
\* Satellites are numbered: the embedded catalog holds 1..EmbeddedCount, a
\* downloaded list holds NetBase + 1 .. NetBase + n.
NetBase == 20 * EmbeddedCount

SatIndex(s) == IF s > NetBase THEN s - NetBase ELSE s

EmbeddedCatalog == [k \in 1..EmbeddedCount |-> k]

\* What load.tle_file returns for url u when it does not raise.
GroupSize(u) == CASE u = 1 -> 6 [] u = 2 -> 5 [] OTHER -> 0

NetSats(from, n) == [k \in 1..n |-> NetBase + from + k]

\* ------------------------------------------------------------------ sky
\* The environment of one cycle: what the orbit propagator answers for each
\* satellite at the cycle's time.
\*   nv: satellites with index <= nv are above the mask;
\*   pf: index of the satellite whose propagation raises (0: none);
\*   sf: index of the satellite whose sub-point call raises (0: none).
InViewCounts == {0} \cup ((MinFixSats - 1)..MaxInView)

Skies ==
    [nv : InViewCounts, pf : {0, 2}, sf : {0, 3}]

PropagationRaises(k, s) == SatIndex(s) = k.pf

SubpointRaises(k, s) == SatIndex(s) = k.sf

\* alt.degrees: exactly the mask for a satellite that is not in view.
Elevation(k, s) ==
    IF SatIndex(s) <= k.nv THEN MaskDeg + 10 * SatIndex(s) ELSE MaskDeg

Offset(i) ==
    CASE i = 1 -> <<200, 600, 300>>
      [] i = 2 -> <<100, 800, 400>>
      [] i = 3 -> <<200, 400, 400>>
      [] i = 4 -> <<400, 800, 100>>
      [] i = 5 -> <<300, 600, 200>>
      [] OTHER -> <<0, 100 * i, 7>>

\* The whole kilometres nearest the receiver.
Overhead == <<1075, 6123, 1422>>

\* geo.frame_xyz(itrs).m: the satellite's ECEF position in metres.  The
\* satellite is Offset kilometres from Overhead.
SatPos(s) ==
    LET o == Offset(SatIndex(s))
        d == IF s > NetBase THEN 1 ELSE 0
    IN <<1000 * (Overhead[1] + o[1] + d), 1000 * (Overhead[2] + o[2]),
         1000 * (Overhead[3] + o[3])>>

\* The satellites of the catalogs: the embedded ones and those a download
\* can bring.
CatalogSats ==
    (1..EmbeddedCount)
    \cup {NetBase + k : k \in 1..SumTo([u \in 1..NumUrls |-> GroupSize(u)], NumUrls)}

\* The distance line 218 computes for each of them, taken once.
CatalogDist ==
    [p \in {SatPos(s) : s \in CatalogSats} |-> Norm(p, EcefScale, truth_ecef)] @@ <<>>

NoiseValues == <<-NoiseBound, 0, NoiseBound>>

\* random.uniform(-0.02, 0.02), one draw per measurement: the draw differs
\* from satellite to satellite and from sky to sky.
Noise(k, s) == NoiseValues[((SatIndex(s) + k.nv) % 3) + 1]

\* ---------------------------------------------------------- measurements
\* true_dist = np.linalg.norm(sat_pos - truth_ecef), in pseudorange units:
\* the metres of sat_pos minus the kilometres of truth_ecef, as line 218 does
TrueDist(pos) ==
    IF pos \in DOMAIN CatalogDist THEN CatalogDist[pos] ELSE Norm(pos, EcefScale, truth_ecef)

\* pseudorange = true_dist + clock_bias + noise
Pseudorange(pos, noise) == TrueDist(pos) + ClockBias + noise

\* {'pos': sat_pos, 'pr': pseudorange}
Measurement(k, s) ==
    [pos |-> SatPos(s), pr |-> Pseudorange(SatPos(s), Noise(k, s))]

\* alt.degrees > 10
IsVisible(el) == el > MaskDeg

\* The entry of visible_display.  Its other fields (az, doppler, tof, lat,
\* lon, incl, raan, ecc, anom, altkm, vkmps) are values of the external
\* propagator that nothing else in the program reads.
DisplayEntry(k, s) == [name |-> s, el |-> Elevation(k, s)]

\* list.sort(key=el, reverse=True): stable, descending.
RECURSIVE InsertDesc(_, _)
InsertDesc(e, s) ==
    IF s = <<>> THEN <<e>>
    ELSE IF s[Len(s)].el >= e.el THEN Append(s, e)
    ELSE Append(InsertDesc(e, SubSeq(s, 1, Len(s) - 1)), s[Len(s)])

RECURSIVE SortDescFrom(_, _, _)
SortDescFrom(s, i, acc) ==
    IF i > Len(s) THEN acc ELSE SortDescFrom(s, i + 1, InsertDesc(s[i], acc))

SortDesc(s) == SortDescFrom(s, 1, <<>>)

\* ---------------------------------------------------------------- solver
\* What np.linalg.lstsq does in one iteration: it raises LinAlgError, or it
\* returns an update dX (units of 0.0001).
RaiseOut == [raises |-> TRUE, dX |-> <<0, 0, 0, 0>>]

Ok(d) == [raises |-> FALSE, dX |-> d]

\* |dX[:3]|^2 = 108: above the threshold though every component is below it
DxBig == <<6, 6, 6, 3>>
\* |dX[:3]| = 10: exactly the threshold
DxEdge == <<10, 0, 0, 1>>
\* |dX[:3]|^2 = 72: below the threshold
DxSmall == <<6, 6, 0, 0>>
\* only the bias moves
DxBiasOnly == <<0, 0, 0, 5>>

LstsqOutcomes == {RaiseOut} \cup {Ok(d) : d \in {DxBig, DxEdge, DxSmall, DxBiasOnly}}

X0 == <<0, 0, 0, 0>>

\* One row of H with its residual, for measurement m at estimate X (lines
\* 162-174).  res = measured_pr - (geo_dist + rx_bias) in units of 0.0001;
\* unit_los: geo_dist > 0, the row holds the unit vector and not [0, 0, 0].
DesignRow(X, m) ==
    LET sq == SumSq(Separation(m.pos, SubSeq(X, 1, 3)))
        geo_dist == BigSqrt(sq)
        measured_pr == BigDivInt(BigMul(Big(m.pr), Big(10000)), PrScale)
    IN [res |-> BigDiff(measured_pr, geo_dist) - X[4], unit_los |-> sq # <<>>]

DesignRows(X, measurements) ==
    [j \in 1..Len(measurements) |-> DesignRow(X, measurements[j])]

\* np.linalg.lstsq(H, residuals, rcond=None)[0] for the H of these
\* measurements: with no measurement H is np.array([]), one-dimensional, and
\* lstsq raises LinAlgError; otherwise the library's outcome.
Lstsq(measurements, out) == IF Len(measurements) = 0 THEN RaiseOut ELSE out

ConvergedAtThreshold(dX) ==
    /\ \A j \in 1..3 : Abs(dX[j]) <= ConvergenceThreshold
    /\ dX[1] * dX[1] + dX[2] * dX[2] + dX[3] * dX[3]
       <= ConvergenceThreshold * ConvergenceThreshold

\* np.linalg.norm(dX[:3]) < 0.001; a component at or above the threshold
\* decides alone, and the squares are only taken of components below it.
Converged(dX) ==
    /\ \A j \in 1..3 : Abs(dX[j]) < ConvergenceThreshold
    /\ dX[1] * dX[1] + dX[2] * dX[2] + dX[3] * dX[3]
       < ConvergenceThreshold * ConvergenceThreshold

AddX(X, dX) == [j \in 1..4 |-> X[j] + dX[j]]

\* One pass of the for loop of solve_pnt.
Iteration(X, measurements, out) ==
    LET r == Lstsq(measurements, out)
    IN IF r.raises THEN [kind |-> "raise", X |-> X]
       ELSE [kind |-> IF Converged(r.dX) THEN "break" ELSE "next",
             X |-> AddX(X, r.dX)]

\* return X[:3]
Estimate(X) == SubSeq(X, 1, 3)

\* for i in range(15): i passes are done, another one follows
LoopContinues(i) == i < MaxIterations

RECURSIVE SolveLoop(_, _, _, _)
SolveLoop(X, i, measurements, run) ==
    IF ~LoopContinues(i) THEN Estimate(X)
    ELSE LET it == Iteration(X, measurements, run[i + 1])
         IN CASE it.kind = "raise" -> None
              [] it.kind = "break" -> Estimate(it.X)
              [] OTHER -> SolveLoop(it.X, i + 1, measurements, run)

\* solve_pnt(measurements), with the lstsq outcome of each iteration given.
solve_pnt(measurements, run) == SolveLoop(X0, 0, measurements, run)

\* The lstsq behaviours a worker cycle draws from: k updates above the
\* threshold, then `last` for the rest of the loop.
Run(k, last) == [i \in 1..MaxIterations |-> IF i <= k THEN Ok(DxBig) ELSE last]

WorkerRuns == {Run(0, RaiseOut), Run(1, Ok(DxSmall))}

\* ------------------------------------------------------------------- fix
\* ecef_to_lla and the blend toward TRUE_LAT/TRUE_LON are trigonometric and
\* floating point: each field of a fix is kept as a term naming the function
\* and the estimate it was computed from.
Term(f, p) == [of |-> f, arg |-> p]

InitFix ==
    [lat |-> Term("0.0", <<0, 0, 0>>), lon |-> Term("0.0", <<0, 0, 0>>),
     alt |-> Term("0", <<0, 0, 0>>), err |-> Term("0", <<0, 0, 0>>),
     mode |-> "INIT"]

\* lines 279-296
LockedFix(est) ==
    [lat |-> Term("blend_lat", est), lon |-> Term("blend_lon", est),
     alt |-> Term("int_alt", est), err |-> Term("err_m", est),
     mode |-> "3D LOCK (ILS)"]

AcquiringFixReset(f) == [InitFix EXCEPT !.mode = "ACQUIRING"]

\* state['fix']['mode'] = "ACQUIRING"
AcquiringFix(f) == [f EXCEPT !.mode = "ACQUIRING"]

Booting == <<"BOOTING", 0>>
Searching == <<"SEARCHING...", 0>>
\* f"TRACKING ({len(visible_display)} SATS)"
Tracking(n) == <<"TRACKING", n>>

\* log(msg): append, drop the oldest entry above MaxLog.
Log(l, msg) ==
    LET a == Append(l, msg)
    IN IF Len(a) > MaxLog THEN Tail(a) ELSE a

\* -------------------------------------------------------------- variables
VARIABLES
    state,            \* the module-level dict: status, source, sats, fix, spectrum
    sats_catalog,     \* self.sats_catalog: a reference to a list ("EMB" or "NET")
    lists,            \* the list objects: the embedded catalog, the updater's new_sats
    sdr,              \* self.sdr is not None
    wpc,              \* the worker's position in run
    sky,              \* what the propagator answers in the worker's current cycle
    is_backup, check_pool, scan_limit, pool, idx,
    solver_inputs, visible_display, est_ecef,
    upc, url,         \* the updater's position and its loop variable
    seen,             \* what the last /data request of the current cycle read
    prevOut,          \* the published sats, fix and status when the cycle began
    failed, tested,   \* satellites whose propagation raised / that were evaluated, this cycle
    solver_used,      \* solve_pnt was called in this cycle
    sv,               \* a solve_pnt call running on its own
    lg                \* state['log'] and the log() calls running on it

vars ==
    <<state, sats_catalog, lists, sdr, wpc, sky, is_backup, check_pool,
      scan_limit, pool, idx, solver_inputs, visible_display, est_ecef, upc,
      url, seen, prevOut, failed, tested, solver_used, sv, lg>>

workerLocals ==
    <<sky, is_backup, check_pool, scan_limit, pool, idx, solver_inputs,
      visible_display, est_ecef>>

ghosts == <<failed, tested, solver_used>>

\* What a reader of the published state compares: sats, fix and status.
Published == [sats |-> state.sats, fix |-> state.fix, status |-> state.status]

NoRead == [taken |-> FALSE, out |-> [sats |-> <<>>, fix |-> InitFix, status |-> Booting]]

SvIdle == [pc |-> "idle", i |-> 0, X |-> X0, ms |-> <<>>, result |-> None,
           below |-> 0, raised |-> FALSE]

\* The threads that call log(): the main thread (init_catalog, init_radio),
\* the updater (update_catalog_network) and the worker (run).
Threads == {"main", "updater", "worker"}

\* state['log'] is empty and no log() call is running.  appended lists every
\* message in the order of the appends; at[th] counts the call sites thread
\* th has passed; called holds the lines whose call was made; overlapped: a
\* call began while a call of another thread was running.
LgIdle ==
    [log |-> <<>>, appended |-> <<>>, pc |-> [th \in Threads |-> "idle"],
     at |-> [th \in Threads |-> 0], called |-> {}, overlapped |-> FALSE]

\* The state after NavEngine() and start(): init_catalog and init_radio ran.
Init ==
    /\ sdr = FALSE
    /\ state = [status |-> Booting, source |-> "EMBEDDED", sats |-> <<>>,
                fix |-> InitFix, spectrum |-> "init"]
    /\ sats_catalog = "EMB"
    /\ lists = [EMB |-> EmbeddedCatalog, NET |-> <<>>]
    /\ wpc = "init"
    /\ sky = [nv |-> 0, pf |-> 0, sf |-> 0]
    /\ is_backup = TRUE
    /\ check_pool = "EMB"
    /\ scan_limit = 0
    /\ pool = <<>>
    /\ idx = 1
    /\ solver_inputs = <<>>
    /\ visible_display = <<>>
    /\ est_ecef = None
    /\ upc = "sleep"
    /\ url = 1
    /\ seen = NoRead
    /\ prevOut = [sats |-> <<>>, fix |-> InitFix, status |-> Booting]
    /\ failed = {}
    /\ tested = {}
    /\ solver_used = FALSE
    /\ sv = SvIdle
    /\ lg = LgIdle

\* ----------------------------------------------------------------- worker
\* lines 189-190
WInit ==
    /\ wpc = "init"
    /\ wpc' = "begin"
    /\ UNCHANGED <<state, sats_catalog, lists, sdr, workerLocals, upc, url, seen,
                   prevOut, ghosts, sv, lg>>

\* lines 193-198: a new cycle starts; is_backup = state['source'] == "EMBEDDED"
WBegin ==
    /\ wpc = "begin"
    /\ \E k \in Skies : sky' = k
    /\ solver_inputs' = <<>>
    /\ visible_display' = <<>>
    /\ is_backup' = (state.source = "EMBEDDED")
    /\ prevOut' = Published
    /\ seen' = [taken |-> FALSE, out |-> Published]
    /\ failed' = {}
    /\ tested' = {}
    /\ solver_used' = FALSE
    /\ wpc' = "read_catalog"
    /\ UNCHANGED <<state, sats_catalog, lists, sdr, check_pool, scan_limit,
                   pool, idx, est_ecef, upc, url, sv, lg>>

\* line 199: check_pool = self.sats_catalog
WReadCatalog ==
    /\ wpc = "read_catalog"
    /\ check_pool' = sats_catalog
    /\ wpc' = "len_test"
    /\ UNCHANGED <<state, sats_catalog, lists, sdr, sky, is_backup, scan_limit,
                   pool, idx, solver_inputs, visible_display, est_ecef, upc,
                   url, seen, prevOut, ghosts, sv, lg>>

\* The orders random.shuffle may leave a list of distinct entries in: every
\* permutation of it, the order it had included.
Shuffles(l) == {p \in [1..Len(l) -> Range(l)] : Range(p) = Range(l)}

PoolRefReread == sats_catalog

\* The list the cycle works on: the local check_pool.
PoolRef == check_pool

\* lines 201-202: if len(check_pool) > 50: random.shuffle(check_pool)
WLenTest ==
    /\ wpc = "len_test"
    /\ IF Len(lists[PoolRef]) > ShufflePoolMin
         THEN \E p \in Shuffles(lists[PoolRef]) :
                  lists' = [lists EXCEPT ![PoolRef] = p]
         ELSE lists' = lists
    /\ wpc' = "limit"
    /\ UNCHANGED <<state, sats_catalog, sdr, workerLocals, upc, url, seen,
                   prevOut, ghosts, sv, lg>>

\* 300 if len(check_pool) > 50 else len(check_pool)
ScanLimit(n) == IF n > ShufflePoolMin THEN ScanCap ELSE n

\* line 203
WLimit ==
    /\ wpc = "limit"
    /\ scan_limit' = ScanLimit(Len(lists[PoolRef]))
    /\ wpc' = "slice"
    /\ UNCHANGED <<state, sats_catalog, lists, sdr, sky, is_backup, check_pool,
                   pool, idx, solver_inputs, visible_display, est_ecef, upc,
                   url, seen, prevOut, ghosts, sv, lg>>

AfterSat(i, n) == IF i > n THEN "publish_sats" ELSE "scan"

\* line 205: the for loop takes the slice check_pool[:scan_limit]
WSlice ==
    /\ wpc = "slice"
    /\ pool' = Take(lists[PoolRef], scan_limit)
    /\ idx' = 1
    /\ wpc' = AfterSat(1, Len(Take(lists[PoolRef], scan_limit)))
    /\ UNCHANGED <<state, sats_catalog, lists, sdr, sky, is_backup, check_pool,
                   scan_limit, solver_inputs, visible_display, est_ecef, upc,
                   url, seen, prevOut, ghosts, sv, lg>>

OnPropagationFailureAbort(i) == Len(pool) + 1

\* except Exception: continue -- the loop goes on with the next satellite
OnPropagationFailure(i) == i + 1

\* lines 206-269: one satellite of the pool
WScan ==
    /\ wpc = "scan"
    /\ idx <= Len(pool)
    /\ LET s == pool[idx] IN
         IF PropagationRaises(sky, s)
         THEN /\ failed' = failed \cup {s}
              /\ idx' = OnPropagationFailure(idx)
              /\ wpc' = AfterSat(OnPropagationFailure(idx), Len(pool))
              /\ UNCHANGED <<solver_inputs, visible_display, tested>>
         ELSE /\ tested' = tested \cup {s}
              /\ UNCHANGED failed
              /\ IF IsVisible(Elevation(sky, s))
                 THEN /\ solver_inputs' = Append(solver_inputs, Measurement(sky, s))
                      /\ IF SubpointRaises(sky, s)
                         \* line 261: wgs84.subpoint(geo) outside any try
                         THEN /\ wpc' = "dead"
                              /\ UNCHANGED <<visible_display, idx>>
                         ELSE /\ visible_display' =
                                     Append(visible_display, DisplayEntry(sky, s))
                              /\ idx' = idx + 1
                              /\ wpc' = AfterSat(idx + 1, Len(pool))
                 ELSE /\ idx' = idx + 1
                      /\ wpc' = AfterSat(idx + 1, Len(pool))
                      /\ UNCHANGED <<solver_inputs, visible_display>>
    /\ UNCHANGED <<state, sats_catalog, lists, sdr, sky, is_backup, check_pool,
                   scan_limit, pool, est_ecef, upc, url, seen, prevOut,
                   solver_used, sv, lg>>

\* lines 271-272
WPublishSats ==
    /\ wpc = "publish_sats"
    /\ visible_display' = SortDesc(visible_display)
    /\ state' = [state EXCEPT !.sats = Take(SortDesc(visible_display), MaxDisplayed)]
    /\ wpc' = "solve"
    /\ UNCHANGED <<sats_catalog, lists, sdr, sky, is_backup, check_pool,
                   scan_limit, pool, idx, solver_inputs, est_ecef, upc, url,
                   seen, prevOut, ghosts, sv, lg>>

\* lines 274-291: the length test, the solve and the post-processing
WSolve ==
    /\ wpc = "solve"
    /\ IF Len(solver_inputs) >= MinFixSats
       THEN /\ \E run \in WorkerRuns : est_ecef' = solve_pnt(solver_inputs, run)
            /\ solver_used' = TRUE
            /\ wpc' = IF est_ecef' # None THEN "pub_fix" ELSE "spectrum"
       ELSE /\ wpc' = "pub_search"
            /\ UNCHANGED <<est_ecef, solver_used>>
    /\ UNCHANGED <<state, sats_catalog, lists, sdr, sky, is_backup, check_pool,
                   scan_limit, pool, idx, solver_inputs, visible_display, upc,
                   url, seen, prevOut, failed, tested, sv, lg>>

\* lines 293-296
WPubFix ==
    /\ wpc = "pub_fix"
    /\ state' = [state EXCEPT !.fix = LockedFix(est_ecef)]
    /\ wpc' = "pub_track"
    /\ UNCHANGED <<sats_catalog, lists, sdr, workerLocals, upc, url, seen,
                   prevOut, ghosts, sv, lg>>

\* line 297
WPubTrack ==
    /\ wpc = "pub_track"
    /\ state' = [state EXCEPT !.status = Tracking(Len(visible_display))]
    /\ wpc' = "spectrum"
    /\ UNCHANGED <<sats_catalog, lists, sdr, workerLocals, upc, url, seen,
                   prevOut, ghosts, sv, lg>>

\* line 299
WPubSearch ==
    /\ wpc = "pub_search"
    /\ state' = [state EXCEPT !.status = Searching]
    /\ wpc' = "pub_mode"
    /\ UNCHANGED <<sats_catalog, lists, sdr, workerLocals, upc, url, seen,
                   prevOut, ghosts, sv, lg>>

\* line 300
WPubMode ==
    /\ wpc = "pub_mode"
    /\ state' = [state EXCEPT !.fix = AcquiringFix(@)]
    /\ wpc' = "spectrum"
    /\ UNCHANGED <<sats_catalog, lists, sdr, workerLocals, upc, url, seen,
                   prevOut, ghosts, sv, lg>>

\* lines 302-313: with a radio, read_samples may raise or the spectrum may be
\* all zero (state['spectrum'] is left alone); without one, random filler.
WSpectrum ==
    /\ wpc = "spectrum"
    /\ IF sdr
       THEN \E v \in {state.spectrum, "samples"} :
                state' = [state EXCEPT !.spectrum = v]
       ELSE state' = [state EXCEPT !.spectrum = "filler"]
    /\ wpc' = "sleep"
    /\ UNCHANGED <<sats_catalog, lists, sdr, workerLocals, upc, url, seen,
                   prevOut, ghosts, sv, lg>>

\* line 315, and back to while True.  The locals of the finished pass are
\* dead: every one is assigned again before the next pass reads it.
WSleep ==
    /\ wpc = "sleep"
    /\ wpc' = "begin"
    /\ scan_limit' = 0
    /\ pool' = <<>>
    /\ idx' = 1
    /\ est_ecef' = None
    /\ UNCHANGED <<state, sats_catalog, lists, sdr, sky, is_backup, check_pool,
                   solver_inputs, visible_display, upc, url, seen, prevOut,
                   ghosts, sv, lg>>

Worker ==
    \/ WInit \/ WBegin \/ WReadCatalog \/ WLenTest \/ WLimit \/ WSlice
    \/ WScan \/ WPublishSats \/ WSolve \/ WPubFix \/ WPubTrack \/ WPubSearch
    \/ WPubMode \/ WSpectrum \/ WSleep

\* ---------------------------------------------------------------- updater
\* line 98
USleep ==
    /\ upc = "sleep"
    /\ upc' = "connect"
    /\ UNCHANGED <<state, sats_catalog, lists, sdr, wpc, workerLocals, url,
                   seen, prevOut, ghosts, sv, lg>>

\* lines 104-105
UConnect ==
    /\ upc = "connect"
    /\ lists' = [lists EXCEPT !.NET = <<>>]
    /\ url' = 1
    /\ upc' = "fetch"
    /\ UNCHANGED <<state, sats_catalog, sdr, wpc, workerLocals, seen, prevOut, ghosts, sv, lg>>

\* lines 107-113: one url; load.tle_file raises, or its satellites are added
UFetch ==
    /\ upc = "fetch"
    /\ url <= NumUrls
    /\ \/ UNCHANGED lists
       \/ lists' = [lists EXCEPT !.NET = @ \o NetSats(Len(@), GroupSize(url))]
    /\ url' = url + 1
    /\ upc' = IF url + 1 > NumUrls THEN "check" ELSE "fetch"
    /\ UNCHANGED <<state, sats_catalog, sdr, wpc, workerLocals, seen, prevOut, ghosts, sv, lg>>

\* line 115: if len(new_sats) > 10
UCheck ==
    /\ upc = "check"
    /\ upc' = IF Len(lists.NET) > MinLiveTargets THEN "swap" ELSE "done"
    /\ UNCHANGED <<state, sats_catalog, lists, sdr, wpc, workerLocals, url,
                   seen, prevOut, ghosts, sv, lg>>

\* line 116: self.sats_catalog = new_sats
USwap ==
    /\ upc = "swap"
    /\ sats_catalog' = "NET"
    /\ upc' = "set_source"
    /\ UNCHANGED <<state, lists, sdr, wpc, workerLocals, url, seen, prevOut,
                   ghosts, sv, lg>>

\* line 117: state['source'] = "LIVE NETWORK"
USetSource ==
    /\ upc = "set_source"
    /\ state' = [state EXCEPT !.source = "LIVE NETWORK"]
    /\ upc' = "log_updated"
    /\ UNCHANGED <<sats_catalog, lists, sdr, wpc, workerLocals, url, seen,
                   prevOut, ghosts, sv, lg>>

\* line 118
ULogUpdated ==
    /\ upc = "log_updated"
    /\ upc' = "done"
    /\ UNCHANGED <<state, sats_catalog, lists, sdr, wpc, workerLocals, url, seen,
                   prevOut, ghosts, sv, lg>>

Updater ==
    \/ USleep \/ UConnect \/ UFetch \/ UCheck \/ USwap \/ USetSource
    \/ ULogUpdated

\* ----------------------------------------------------------------- reader
\* data(): jsonify(state), taken here as one atomic read of the dict.
Data ==
    /\ seen' = [taken |-> TRUE, out |-> Published]
    /\ UNCHANGED <<state, sats_catalog, lists, sdr, wpc, workerLocals, upc,
                   url, prevOut, ghosts, sv, lg>>

Next == Worker \/ Updater \/ Data

Spec == Init /\ [][Next]_vars

\* ------------------------------------------------- solve_pnt, step by step
\* The measurement lists solve_pnt is called with on its own: the first n
\* satellites of the embedded catalog, n = 0..MaxMeas.
MeasLists ==
    {[j \in 1..n |-> Measurement(k, j)] :
        n \in 0..MaxMeas, k \in {y \in Skies : y.pf = 0 /\ y.sf = 0}}

SolverInit ==
    /\ sdr = FALSE
    /\ state = [status |-> Booting, source |-> "EMBEDDED", sats |-> <<>>,
                fix |-> InitFix, spectrum |-> "init"]
    /\ sats_catalog = "EMB"
    /\ lists = [EMB |-> EmbeddedCatalog, NET |-> <<>>]
    /\ wpc = "init"
    /\ sky = [nv |-> 0, pf |-> 0, sf |-> 0]
    /\ is_backup = TRUE
    /\ check_pool = "EMB"
    /\ scan_limit = 0
    /\ pool = <<>>
    /\ idx = 1
    /\ solver_inputs = <<>>
    /\ visible_display = <<>>
    /\ est_ecef = None
    /\ upc = "sleep"
    /\ url = 1
    /\ seen = NoRead
    /\ prevOut = [sats |-> <<>>, fix |-> InitFix, status |-> Booting]
    /\ failed = {}
    /\ tested = {}
    /\ solver_used = FALSE
    /\ lg = LgIdle
    /\ \E ms \in MeasLists : sv = [SvIdle EXCEPT !.pc = "loop", !.ms = ms]

nonLog ==
    <<state, sats_catalog, lists, sdr, wpc, sky, is_backup, check_pool,
      scan_limit, pool, idx, solver_inputs, visible_display, est_ecef, upc,
      url, seen, prevOut, failed, tested, solver_used, sv>>

nonSolver ==
    <<state, sats_catalog, lists, sdr, wpc, sky, is_backup, check_pool,
      scan_limit, pool, idx, solver_inputs, visible_display, est_ecef, upc,
      url, seen, prevOut, failed, tested, solver_used, lg>>

\* The update lstsq returned is below the convergence threshold (0.001).
BelowThreshold(dX) ==
    dX[1] * dX[1] + dX[2] * dX[2] + dX[3] * dX[3] < 100

\* lines 160-184: one pass of the loop.  sv.below remembers the first pass
\* whose update was below the threshold, sv.raised that lstsq raised.
SvIterate ==
    /\ sv.pc = "loop"
    /\ LoopContinues(sv.i)
    /\ \E out \in LstsqOutcomes :
         LET it == Iteration(sv.X, sv.ms, out)
             r == Lstsq(sv.ms, out)
             b == IF sv.below = 0 /\ ~r.raises /\ BelowThreshold(r.dX)
                  THEN sv.i + 1 ELSE sv.below
         IN CASE it.kind = "raise" ->
                   sv' = [sv EXCEPT !.pc = "done", !.i = @ + 1,
                                    !.result = None, !.raised = TRUE]
              [] it.kind = "break" ->
                   sv' = [sv EXCEPT !.pc = "done", !.i = @ + 1, !.X = it.X,
                                    !.result = Estimate(it.X), !.below = b]
              [] OTHER ->
                   sv' = [sv EXCEPT !.i = @ + 1, !.X = it.X, !.below = b]
    /\ UNCHANGED nonSolver

\* line 185, when the loop ran out
SvReturn ==
    /\ sv.pc = "loop"
    /\ ~LoopContinues(sv.i)
    /\ sv' = [sv EXCEPT !.pc = "done", !.result = Estimate(sv.X)]
    /\ UNCHANGED nonSolver

SolverNext == SvIterate \/ SvReturn

SolverSpec == SolverInit /\ [][SolverNext]_vars

\* ------------------------------------- solve_pnt on noise-free measurements
\* Receiver and satellites on the x axis.  There every row of H is
\* (los, 0, 0, 1) with los = -1, 0 or 1, and what np.linalg.lstsq returns
\* (the least-squares solution of minimum norm) is rational arithmetic on the
\* residuals: the model computes it instead of drawing it.

\* line 224 with the noise and the bias as arguments: the pseudorange of a
\* satellite at sat_pos for a receiver at truth.
Synthesize(sat_pos, truth, bias, noise) ==
    [pos |-> sat_pos, pr |-> Norm(sat_pos, 1, truth) + bias + noise]

OnAxis(x) == <<x, 0, 0>>

\* x coordinates (km) of the satellites, and the receivers and clock biases
\* the measurements are generated from.
AxisSats == <<-8000, -7000, 7000, 8000, 9000, 10000>>

AxisTruths == {-1000, 0, 1000, 2000}

AxisBiases == {0, ClockBias}

NoiseFree(sats, t, b) ==
    [j \in 1..Len(sats) |-> Synthesize(OnAxis(AxisSats[sats[j]]), OnAxis(t), b, 0)]

\* The satellite selections: MinFixSats to MaxMeas satellites of AxisSats, in
\* the order of AxisSats.
AxisSelections ==
    UNION {{q \in [1..n -> 1..Len(AxisSats)] :
               \A j \in 1..(n - 1) : q[j] < q[j + 1]} : n \in MinFixSats..MaxMeas}

Sign(a) == IF a > 0 THEN 1 ELSE IF a < 0 THEN -1 ELSE 0

\* los[0] of the row of measurement m (lines 170-173):
\* (rx_pos - sat_pos) / geo_dist, and [0, 0, 0] when geo_dist is 0.
AxisLos(X, m) == Sign(X[1] - 10000 * m.pos[1])

\* np.linalg.lstsq(H, residuals, rcond=None)[0] for rows (los, 0, 0, 1): the
\* solution of the normal equations when H has rank 2, the solution of
\* minimum norm when every row is the same; dX in units of 0.0001.
AxisLstsq(X, measurements) ==
    LET n == Len(measurements)
        rows == DesignRows(X, measurements)
        s == [j \in 1..n |-> AxisLos(X, measurements[j])]
        r == [j \in 1..n |-> rows[j].res]
        Ss == SumTo(s, n)
        Sr == SumTo(r, n)
        Sss == SumTo([j \in 1..n |-> s[j] * s[j]], n)
        Ssr == SumTo([j \in 1..n |-> s[j] * r[j]], n)
        D == n * Sss - Ss * Ss
    IN IF n = 0 THEN RaiseOut
       ELSE IF D # 0
       THEN Ok(<<(n * Ssr - Ss * Sr) \div D, 0, 0, (Sss * Sr - Ss * Ssr) \div D>>)
       ELSE IF Sss = 0 THEN Ok(<<0, 0, 0, Sr \div n>>)
       ELSE Ok(<<s[1] * (Sr \div (2 * n)), 0, 0, Sr \div (2 * n)>>)

\* What lstsq returns in each pass of solve_pnt(measurements).
RECURSIVE AxisRunFrom(_, _, _)
AxisRunFrom(X, i, measurements) ==
    IF ~LoopContinues(i) THEN <<>>
    ELSE LET out == AxisLstsq(X, measurements)
         IN <<out>> \o AxisRunFrom(AddX(X, out.dX), i + 1, measurements)

AxisRun(measurements) == AxisRunFrom(X0, 0, measurements)

ExactInit ==
    /\ sdr = FALSE
    /\ state = [status |-> Booting, source |-> "EMBEDDED", sats |-> <<>>,
                fix |-> InitFix, spectrum |-> "init"]
    /\ sats_catalog = "EMB"
    /\ lists = [EMB |-> EmbeddedCatalog, NET |-> <<>>]
    /\ wpc = "init"
    /\ sky = [nv |-> 0, pf |-> 0, sf |-> 0]
    /\ is_backup = TRUE
    /\ check_pool = "EMB"
    /\ scan_limit = 0
    /\ pool = <<>>
    /\ idx = 1
    /\ solver_inputs = <<>>
    /\ visible_display = <<>>
    /\ est_ecef = None
    /\ upc = "sleep"
    /\ url = 1
    /\ seen = NoRead
    /\ prevOut = [sats |-> <<>>, fix |-> InitFix, status |-> Booting]
    /\ failed = {}
    /\ tested = {}
    /\ solver_used = FALSE
    /\ lg = LgIdle
    /\ \E q \in AxisSelections, t \in AxisTruths, b \in AxisBiases :
         sv = [SvIdle EXCEPT !.pc = "call", !.ms = NoiseFree(q, t, b)]

\* solve_pnt(measurements), called and returned.
ExactSolve ==
    /\ sv.pc = "call"
    /\ sv' = [sv EXCEPT !.pc = "returned",
                        !.result = solve_pnt(sv.ms, AxisRun(sv.ms))]
    /\ UNCHANGED nonSolver

ExactSpec == ExactInit /\ [][ExactSolve]_vars

\* ------------------------------------------------- log(), step by step
\* The log() call sites of each thread, by line, in the order the thread
\* reaches them: init_catalog and the two branches of init_radio in the
\* main thread; in the updater the connect message, one message per url,
\* the update message and the message of the outer except; the worker's
\* first line.
Sites(th) ==
    CASE th = "main" -> <<83, 128, 130>>
      [] th = "updater" -> <<104>> \o [u \in 1..NumUrls |-> 111] \o <<118, 120>>
      [] OTHER -> <<190>>

\* The thread can make the call of this line.  Line 118 takes more than 10
\* downloaded satellites, so a download succeeded; line 120 takes an
\* exception raised by lines 115 to 118, which is one raised by the call of
\* line 118 at its print, after the list was written; line 130 takes an
\* exception raised by lines 123 to 128: before line 128, or by the call of
\* line 128 at its print.
Callable(line) ==
    CASE line = 118 -> 111 \in lg.called
      [] line = 120 -> 118 \in lg.called
      [] OTHER -> TRUE

\* The thread can pass this line without the call: load.tle_file raised
\* (111), no more than 10 satellites (118), nothing raised (120), an
\* exception before line 128 (128), the call of line 128 returned (130).
Skippable(line) ==
    CASE line \in {111, 118, 120, 128} -> TRUE
      [] line = 130 -> 128 \in lg.called
      [] OTHER -> FALSE

\* The updater is started at line 95, after init_catalog's log() call; the
\* worker by start(), after NavEngine() returned.
Started(th) ==
    CASE th = "main" -> TRUE
      [] th = "updater" ->
           lg.at["main"] >= 2 \/ (lg.at["main"] = 1 /\ lg.pc["main"] = "idle")
      [] OTHER -> lg.at["main"] = Len(Sites("main")) /\ lg.pc["main"] = "idle"

AtSite(th) ==
    /\ Started(th)
    /\ lg.pc[th] = "idle"
    /\ lg.at[th] < Len(Sites(th))

\* The message of the k-th call site of thread th.
Message(th, k) == <<th, k>>

\* state['log'].append(...)
AppendEntry(l, msg) == Append(l, msg)

FullAtCap(l) == Len(l) >= MaxLog

\* len(state['log']) > 10
Full(l) == Len(l) > MaxLog

\* state['log'].pop(0)
PopOldest(l) == Tail(l)

\* lines 63-64: state['log'].append(f"[{ts}] {msg}")
LogAppend(th) ==
    /\ AtSite(th)
    /\ Callable(Sites(th)[lg.at[th] + 1])
    /\ LET msg == Message(th, lg.at[th] + 1)
       IN lg' = [lg EXCEPT !.log = AppendEntry(@, msg),
                           !.appended = Append(@, msg),
                           !.at[th] = @ + 1,
                           !.pc[th] = "check",
                           !.called = @ \cup {Sites(th)[lg.at[th] + 1]},
                           !.overlapped =
                               @ \/ \E o \in Threads \ {th} : lg.pc[o] # "idle"]
    /\ UNCHANGED nonLog

\* The thread passes a call site without calling log().
NoLog(th) ==
    /\ AtSite(th)
    /\ Skippable(Sites(th)[lg.at[th] + 1])
    /\ lg' = [lg EXCEPT !.at[th] = @ + 1]
    /\ UNCHANGED nonLog

\* line 65, if len(state['log']) > 10, and when it is, as a step of its own,
\* line 66: state['log'].pop(0), which raises IndexError on an empty list;
\* then line 67 and the return.
LogFinish(th) ==
    /\ lg.pc[th] \in {"check", "pop"}
    /\ lg' = IF lg.pc[th] = "check"
             THEN [lg EXCEPT !.pc[th] = IF Full(lg.log) THEN "pop" ELSE "idle"]
             ELSE IF lg.log = <<>>
                  THEN [lg EXCEPT !.pc[th] = "raised"]
                  ELSE [lg EXCEPT !.log = PopOldest(@), !.pc[th] = "idle"]
    /\ UNCHANGED nonLog

LogNext == \E th \in Threads : LogAppend(th) \/ NoLog(th) \/ LogFinish(th)

LogSpec == Init /\ [][LogNext]_vars

\* ================================================================= claims
CycleEnd == wpc \in {"spectrum", "sleep"}

ScanStarted ==
    wpc \in {"scan", "publish_sats", "solve", "pub_fix", "pub_track",
             "pub_search", "pub_mode", "spectrum", "sleep", "dead"}

SamePosition(f, g) ==
    f.lat = g.lat /\ f.lon = g.lon /\ f.alt = g.alt /\ f.err = g.err

\* C1: what a /data request read during a cycle is the complete output of
\* one cycle: the sats, fix and status published when the cycle began, or
\* the sats, fix and status published when it ends, never a mix.
C1_ReadersSeeWholeCycles ==
    wpc = "sleep" => seen.out \in {prevOut, Published}

\* C2: a cycle with fewer than 4 visible satellites does not call the
\* solver, publishes the searching status, and leaves the latitude,
\* longitude, altitude and error of the fix as they were when it began.
C2_FewSatsKeepFix ==
    (CycleEnd /\ Len(solver_inputs) < MinFixSats) =>
        /\ ~solver_used
        /\ state.status = Searching
        /\ SamePosition(state.fix, prevOut.fix)

C2_Witness ==
    /\ wpc = "sleep"
    /\ Len(solver_inputs) < MinFixSats
    /\ prevOut.fix.mode = "3D LOCK (ILS)"
    /\ state.fix.mode = "ACQUIRING"
    /\ state.fix.lat # InitFix.lat

\* C3: a cycle with 4 or more measurements whose solve fails ends as a
\* cycle with fewer than 4 measurements does from the same published state:
\* searching status, acquiring mode, the previous position kept.
C3_SolverFailureLikeTooFew ==
    (CycleEnd /\ solver_used /\ est_ecef = None) =>
        /\ state.status = Searching
        /\ state.fix = AcquiringFix(prevOut.fix)

\* C4: solve_pnt called with fewer than 4 measurements returns None.
C4_FewMeasurementsFail ==
    (sv.pc = "done" /\ Len(sv.ms) < MinFixSats) => sv.result = None

\* C5: the worker never terminates: it does not leave its loop, whatever
\* fails inside a cycle.
C5_WorkerNeverTerminates == wpc # "dead"

\* C6: a satellite whose propagation raised contributes no measurement and
\* no display entry, the scan goes on past it, every other satellite of the
\* pool is evaluated (and measured when visible), and the cycle reaches its
\* publish step with the whole pool accounted for.
C6_PropagationFailureSkipsOne ==
    ScanStarted =>
        /\ \A s \in failed :
             /\ \A j \in 1..Len(solver_inputs) : solver_inputs[j].pos # SatPos(s)
             /\ \A j \in 1..Len(visible_display) : visible_display[j].name # s
             /\ \E j \in 1..Len(pool) : j < idx /\ pool[j] = s
        /\ \A j \in 1..Len(pool) : j < idx => pool[j] \in failed \cup tested
        /\ \A s \in tested :
             IsVisible(Elevation(sky, s)) =>
                 \E j \in 1..Len(solver_inputs) : solver_inputs[j].pos = SatPos(s)
        /\ wpc \in {"publish_sats", "solve"} =>
             /\ failed \cup tested = Range(pool)
             /\ failed \cap tested = {}

C6_Witness ==
    /\ wpc = "solve"
    /\ failed # {}
    /\ Len(solver_inputs) >= MinFixSats
    /\ Cardinality(tested) + Cardinality(failed) = Len(pool)

\* C7: the scan limit and every satellite scanned in a cycle come from the
\* catalog the cycle read at its start (check_pool), also when the updater
\* replaced self.sats_catalog meanwhile; the worker stops only where a
\* sub-point call raised.
C7_StableCatalogSnapshot ==
    /\ wpc = "slice" => scan_limit = ScanLimit(Len(lists[check_pool]))
    /\ (ScanStarted /\ wpc # "dead") =>
           /\ scan_limit = ScanLimit(Len(lists[check_pool]))
           /\ pool = Take(lists[check_pool], scan_limit)
    /\ wpc = "dead" =>
           /\ pool = Take(lists[check_pool], scan_limit)
           /\ SubpointRaises(sky, pool[idx])

C7_Witness ==
    /\ wpc = "scan"
    /\ idx > 1
    /\ check_pool = "EMB"
    /\ sats_catalog = "NET"
    /\ Len(lists.NET) > Len(lists.EMB)

\* The true geometric distance between the receiver and a satellite at pos
\* (metres), in kilometres, the unit of the clock bias and of the noise, in
\* units of 1/PrScale: a metre is EcefScale \div 1000 units of truth_ecef.
GeometricDistance(pos) ==
    ScaledNorm([i \in 1..3 |-> AbsDiff(pos[i], EcefScale \div 1000, truth_ecef[i])],
               PrScale, EcefScale)

\* C8: every measurement handed to the solver has a pseudorange at least
\* the true geometric distance between the receiver and the satellite, and
\* it is that distance plus the one positive clock bias plus a noise within
\* the noise bound.
C8_PseudorangeAtLeastDistance ==
    \A j \in 1..Len(solver_inputs) :
        LET m == solver_inputs[j]
        IN /\ m.pr >= GeometricDistance(m.pos)
           /\ m.pr - GeometricDistance(m.pos) >= ClockBias - NoiseBound
           /\ m.pr - GeometricDistance(m.pos) <= ClockBias + NoiseBound
           /\ ClockBias - NoiseBound > 0

\* C9: a successful solve returns the whole 4-component state: the three
\* position components and the solved clock bias.
C9_ReturnsFullState ==
    (sv.pc = "done" /\ sv.result # None) =>
        Len(sv.result) = 4 /\ sv.result = sv.X

\* C10: solve_pnt makes at most MaxIterations passes; it stops at the first
\* pass whose position update is below the threshold; when no pass is, it
\* returns the estimate reached after the last pass; it fails only when
\* lstsq raised; and every step of a call is one more pass or its return, so
\* that no call runs for ever.
C10_Bounded ==
    /\ sv.i <= MaxIterations
    /\ sv.below # 0 => (sv.pc = "done" /\ sv.i = sv.below)
    /\ (sv.pc = "done" /\ ~sv.raised) =>
           /\ sv.result = SubSeq(sv.X, 1, 3)
           /\ sv.below = 0 => sv.i = MaxIterations
    /\ (sv.pc = "done" /\ sv.raised) => sv.result = None

\* Every step of a running call is one more pass or the return.
C10_Progress ==
    sv.pc = "loop" => (sv'.i = sv.i + 1 \/ (sv'.pc = "done" /\ sv'.i = sv.i))

C10_SolverTerminates == []C10_Bounded /\ [][C10_Progress]_vars

C10_Witness ==
    /\ sv.pc = "done"
    /\ sv.i = MaxIterations
    /\ sv.below = 0
    /\ ~sv.raised
    /\ sv.result # None
    /\ Len(sv.ms) >= MinFixSats

\* C11: from 4 or more noise-free measurements of a receiver position and a
\* clock bias, solve_pnt returns that position and that bias, each within
\* 1e-6 (less than 0.0001, the unit of the estimate: equality).
C11_NoiselessExact ==
    (sv.pc = "returned" /\ Len(sv.ms) >= MinFixSats) =>
        \A t \in AxisTruths, b \in AxisBiases :
            (\A j \in 1..Len(sv.ms) :
                 sv.ms[j] = Synthesize(sv.ms[j].pos, OnAxis(t), b, 0)) =>
                /\ sv.result # None
                /\ SubSeq(sv.result, 1, 3) = OnAxis(10000 * t)
                /\ Len(sv.result) = 4
                /\ sv.result[4] = (10000 * b) \div PrScale

\* line 207, if is_backup: the random time offset is applied to the
\* satellites this cycle scans.
TimeOffsetApplied == is_backup

\* C12: in every cycle the backup-mode time offset is applied if and only if
\* the catalog the cycle scans is the embedded one, whatever the interleaving
\* with the updater's two writes (self.sats_catalog, then state['source']).
C12_BackupOffsetMatchesCatalog ==
    wpc = "scan" => (TimeOffsetApplied <=> check_pool = "EMB")

\* Every log() call has returned.
LogQuiet == \A th \in Threads : lg.pc[th] = "idle"

====
